---- MODULE Spec2Model ----
(***************************************************************************)
(* Payment-gated scraping endpoints of the marketplace service template.  *)
(*                                                                         *)
(* The model follows each HTTP request through the Hono app: cors(), the   *)
(* security-header and rate-limit middleware, then the route handler from *)
(* one await to the next (the request body, the chain RPC with the        *)
(* verifier's bounded retry, the proxy lookups, the scraper, the fetches  *)
(* of /health).  Each step of the model is the code that runs between two *)
(* awaits, so requests in flight interleave exactly where the event loop  *)
(* lets them.  Routes that ask for no payment pass the same middleware.   *)
(*                                                                         *)
(* Amounts are integers in micro-USDC (USDC has 6 decimals), so the       *)
(* source's 0.005 is 5000 here.  Time is counted in ticks of one          *)
(* rate-limit window (60 000 ms).                                          *)
(***************************************************************************)
EXTENDS Integers, Sequences, FiniteSets, TLC

\* ------------------------------------------------------------------ bounds
NReq == 2
MaxNow == 2
RATE_LIMIT == 2
ROUTER_RATE_LIMIT == 1
MaxPlatforms == 5
MaxRoutes == 1

\* --------------------------------------------------------------- constants
USDC_DECIMALS == 6
MAX_RETRIES == 2
RATE_LIMIT_WINDOW == 1
MAPS_PRICE_USDC == 5000
BUSINESS_PRICE_USDC == 2000
PREDICTION_PRICE == 50000
REVIEWS_PRICE_USDC == 5000
JOBS_PRICE == 5000
LINKEDIN_PERSON_PRICE_USDC == 30000
LINKEDIN_COMPANY_PRICE_USDC == 50000
LINKEDIN_SEARCH_PRICE_USDC == 100000
PRICE_USDC == 10000
SUITE_PRICE_USDC == 5000
SERP_PRICE_USDC == 3000
PRICE_SINGLE == 100000
PRICE_MULTI == 500000
PRICE_FULL == 1000000
TRENDING_PRICE_USDC == 100000

Requests == 1..NReq

VARIABLES
  env,          \* the deployment: the router mounted, the settings present,
                \* and the routes its clients call
  now,          \* Date.now(), in ticks of one rate-limit window
  rateLimits,   \* app-level limiter: ip -> entry
  routerLimits, \* per-router limiter of /api/research and /api/trending
  replay,       \* Replay Guard: accepted references
  pending,      \* Replay Guard: references reserved by a running verification
  req,          \* the requests: position, inputs kept, verdict, response
  served,       \* history: per reference, how many requests were accepted
  call,         \* a function called on its own: its arguments and its result
  admitted      \* history: per ip, the requests of its current limiter window
                \* that reached a route handler

vars == <<env, now, rateLimits, routerLimits, replay, pending, req, served, call, admitted>>

\* ------------------------------------------------------------ small values
NoPayment == [network |-> "none", txHash |-> "none"]
NoEntry == [count |-> 0, resetAt |-> -1]
NoVerdict == [valid |-> FALSE, error |-> "none"]
NoCall == [fn |-> "none"]
NoResponse == [status |-> 0, headers |-> {}, body |-> [none |-> TRUE]]

Networks == {"solana", "base"}
Refs == {[network |-> "base", txHash |-> "0x01"],
         [network |-> "solana", txHash |-> "sig1"]}
IPs == {"10.0.0.1", "unknown"}
\* the clients whose requests are followed through the handlers
Clients == {"10.0.0.1"}

\* An address is <<identity, spelling>>: the same account can be written in
\* lower or mixed case.  toLowerCase() maps every spelling to "lower".
ToLowerCase(a) == <<a[1], "lower">>
CONFIGURED_WALLET == <<"wallet", "mixed">>
DEFAULT_WALLET == <<"6eUd", "mixed">>
Addresses == {<<"wallet", "mixed">>, <<"wallet", "lower">>, <<"other", "lower">>}
USDC(network) == IF network = "base" THEN "0x8335" ELSE "EPjF"
Assets == {"0x8335", "EPjF", "other"}

\* ------------------------------------------------------ decimal formatting
Digits == <<"0", "1", "2", "3", "4", "5", "6", "7", "8", "9">>

RECURSIVE IntStr(_)
IntStr(n) == IF n < 10 THEN Digits[n + 1]
             ELSE IntStr(n \div 10) \o Digits[(n % 10) + 1]

RECURSIVE Pow10(_)
Pow10(k) == IF k = 0 THEN 1 ELSE 10 * Pow10(k - 1)

\* f written with exactly w digits
RECURSIVE Padded(_, _)
Padded(f, w) == IF w = 0 THEN "" ELSE Padded(f \div 10, w - 1) \o Digits[(f % 10) + 1]

\* the fraction digits of f / 10^w without trailing zeros
RECURSIVE FracStr(_, _)
FracStr(f, w) == IF f % 10 = 0 THEN FracStr(f \div 10, w - 1) ELSE Padded(f, w)

\* String(price) of a price given in micro-USDC: 5000 -> "0.005", 1000000 -> "1"
DecimalString(raw) ==
  LET i == raw \div Pow10(USDC_DECIMALS)
      f == raw % Pow10(USDC_DECIMALS)
  IN IF f = 0 THEN IntStr(i) ELSE IntStr(i) \o "." \o FracStr(f, USDC_DECIMALS)


\* --------------------------------------------------------------- endpoints
\* One record per route handler that calls verifyPayment.  The fields are the
\* places where the handlers differ:
\*   needsWallet  500 when WALLET_ADDRESS is unset (otherwise a default address)
\*   needsKey     500 when BROWSER_INTERNAL_KEY is unset
\*   router       the router-level rate limiter the handler consults
\*   bodyChecks   content-type, size and body validation before verification
\*   guarded      the call of verifyPayment sits in try/catch (502)
\*   reason       the 402 rejection carries verification.error as `reason`
\*   hint         the 402 rejection carries a `hint`
\*   proxy        the handler's first getProxy(): "first" right after the
\*                verification (checkProxyRateLimit), "try" after validation
\*                and inside the try block, "bare" after validation and
\*                outside any try block, "none" when it has none before the
\*                scraper
\*   validates    parameters are validated (400) after verification
\*   before       what the handler awaits between verification and scraper
\*   catches      the scraper call sits in try/catch (502); otherwise the
\*                exception reaches app.onError (500)
\*   soft         statuses answered when the scraper reports failure
\*   after        the handler awaits getProxyIp() after the scraper
\*   settledHdr   c.header('X-Payment-Settled', 'true') before the 200
\*   receipt      fields of the `payment` object of the 200 body
\*   fallback     amount: verification.amount ?? price
Receipt4 == {"txHash", "network", "amount", "settled"}

\* the hub: service.ts from line 608, with the routers of mcp.ts mounted
MapsRun ==
  [name |-> "MapsRun", path |-> "/api/run", price |-> MAPS_PRICE_USDC,
   needsWallet |-> FALSE, needsKey |-> FALSE, router |-> "none", bodyChecks |-> FALSE,
   guarded |-> FALSE, failText |-> "Payment verification failed", reason |-> FALSE,
   hint |-> FALSE, proxy |-> "first", validates |-> TRUE, before |-> "none",
   catches |-> TRUE, soft |-> {}, after |-> TRUE, settledHdr |-> FALSE,
   receipt |-> Receipt4, fallback |-> FALSE]

MapsDetails ==
  [name |-> "MapsDetails", path |-> "/api/details", price |-> MAPS_PRICE_USDC,
   needsWallet |-> FALSE, needsKey |-> FALSE, router |-> "none", bodyChecks |-> FALSE,
   guarded |-> FALSE, failText |-> "Payment verification failed", reason |-> FALSE,
   hint |-> FALSE, proxy |-> "first", validates |-> TRUE, before |-> "none",
   catches |-> TRUE, soft |-> {}, after |-> TRUE, settledHdr |-> FALSE,
   receipt |-> Receipt4, fallback |-> FALSE]

Jobs ==
  [name |-> "Jobs", path |-> "/api/jobs", price |-> JOBS_PRICE,
   needsWallet |-> FALSE, needsKey |-> FALSE, router |-> "none", bodyChecks |-> FALSE,
   guarded |-> FALSE, failText |-> "Payment verification failed", reason |-> FALSE,
   hint |-> FALSE, proxy |-> "first", validates |-> FALSE, before |-> "none",
   catches |-> TRUE, soft |-> {}, after |-> TRUE, settledHdr |-> FALSE,
   receipt |-> Receipt4, fallback |-> FALSE]

ReviewsSearch ==
  [name |-> "ReviewsSearch", path |-> "/api/reviews/search", price |-> BUSINESS_PRICE_USDC,
   needsWallet |-> FALSE, needsKey |-> FALSE, router |-> "none", bodyChecks |-> FALSE,
   guarded |-> FALSE, failText |-> "Payment verification failed", reason |-> FALSE,
   hint |-> FALSE, proxy |-> "first", validates |-> TRUE, before |-> "none",
   catches |-> TRUE, soft |-> {}, after |-> FALSE, settledHdr |-> FALSE,
   receipt |-> {"txHash", "amount", "settled"}, fallback |-> FALSE]

ReviewsSummary ==
  [name |-> "ReviewsSummary", path |-> "/api/reviews/summary/:place_id", price |-> REVIEWS_PRICE_USDC,
   needsWallet |-> FALSE, needsKey |-> FALSE, router |-> "none", bodyChecks |-> FALSE,
   guarded |-> FALSE, failText |-> "Payment verification failed", reason |-> FALSE,
   hint |-> FALSE, proxy |-> "first", validates |-> FALSE, before |-> "none",
   catches |-> TRUE, soft |-> {}, after |-> FALSE, settledHdr |-> FALSE,
   receipt |-> {"txHash", "amount", "settled"}, fallback |-> FALSE]

Reviews ==
  [name |-> "Reviews", path |-> "/api/reviews/:place_id", price |-> REVIEWS_PRICE_USDC,
   needsWallet |-> FALSE, needsKey |-> FALSE, router |-> "none", bodyChecks |-> FALSE,
   guarded |-> FALSE, failText |-> "Payment verification failed", reason |-> FALSE,
   hint |-> FALSE, proxy |-> "first", validates |-> FALSE, before |-> "none",
   catches |-> TRUE, soft |-> {}, after |-> FALSE, settledHdr |-> FALSE,
   receipt |-> {"txHash", "amount", "settled"}, fallback |-> FALSE]

Business ==
  [name |-> "Business", path |-> "/api/business/:place_id", price |-> BUSINESS_PRICE_USDC,
   needsWallet |-> FALSE, needsKey |-> FALSE, router |-> "none", bodyChecks |-> FALSE,
   guarded |-> FALSE, failText |-> "Payment verification failed", reason |-> FALSE,
   hint |-> FALSE, proxy |-> "first", validates |-> FALSE, before |-> "none",
   catches |-> TRUE, soft |-> {}, after |-> FALSE, settledHdr |-> FALSE,
   receipt |-> {"txHash", "amount", "settled"}, fallback |-> FALSE]

LinkedinPerson ==
  [name |-> "LinkedinPerson", path |-> "/api/linkedin/person", price |-> LINKEDIN_PERSON_PRICE_USDC,
   needsWallet |-> TRUE, needsKey |-> FALSE, router |-> "none", bodyChecks |-> FALSE,
   guarded |-> FALSE, failText |-> "Payment verification failed", reason |-> TRUE,
   hint |-> FALSE, proxy |-> "try", validates |-> TRUE, before |-> "none",
   catches |-> TRUE, soft |-> {502}, after |-> FALSE, settledHdr |-> TRUE,
   receipt |-> Receipt4, fallback |-> FALSE]

LinkedinCompany ==
  [name |-> "LinkedinCompany", path |-> "/api/linkedin/company", price |-> LINKEDIN_COMPANY_PRICE_USDC,
   needsWallet |-> TRUE, needsKey |-> FALSE, router |-> "none", bodyChecks |-> FALSE,
   guarded |-> FALSE, failText |-> "Payment verification failed", reason |-> TRUE,
   hint |-> FALSE, proxy |-> "try", validates |-> TRUE, before |-> "none",
   catches |-> TRUE, soft |-> {502}, after |-> FALSE, settledHdr |-> TRUE,
   receipt |-> Receipt4, fallback |-> FALSE]

LinkedinSearchPeople ==
  [name |-> "LinkedinSearchPeople", path |-> "/api/linkedin/search/people", price |-> LINKEDIN_SEARCH_PRICE_USDC,
   needsWallet |-> TRUE, needsKey |-> FALSE, router |-> "none", bodyChecks |-> FALSE,
   guarded |-> FALSE, failText |-> "Payment verification failed", reason |-> TRUE,
   hint |-> FALSE, proxy |-> "try", validates |-> TRUE, before |-> "none",
   catches |-> TRUE, soft |-> {}, after |-> FALSE, settledHdr |-> TRUE,
   receipt |-> Receipt4, fallback |-> FALSE]

LinkedinEmployees ==
  [name |-> "LinkedinEmployees", path |-> "/api/linkedin/company/:id/employees", price |-> LINKEDIN_SEARCH_PRICE_USDC,
   needsWallet |-> TRUE, needsKey |-> FALSE, router |-> "none", bodyChecks |-> FALSE,
   guarded |-> FALSE, failText |-> "Payment verification failed", reason |-> TRUE,
   hint |-> FALSE, proxy |-> "try", validates |-> FALSE, before |-> "none",
   catches |-> TRUE, soft |-> {}, after |-> FALSE, settledHdr |-> TRUE,
   receipt |-> Receipt4, fallback |-> FALSE]

Predictions ==
  [name |-> "Predictions", path |-> "/api/predictions", price |-> PREDICTION_PRICE,
   needsWallet |-> FALSE, needsKey |-> FALSE, router |-> "none", bodyChecks |-> FALSE,
   guarded |-> FALSE, failText |-> "Payment failed", reason |-> FALSE, hint |-> FALSE,
   proxy |-> "none", validates |-> FALSE, before |-> "none", catches |-> FALSE,
   soft |-> {}, after |-> FALSE, settledHdr |-> FALSE, receipt |-> Receipt4,
   fallback |-> FALSE]

\* the SERP tracker that drives a browser (service.ts, first version)
SerpRun ==
  [name |-> "SerpRun", path |-> "/api/run", price |-> PRICE_USDC,
   needsWallet |-> TRUE, needsKey |-> TRUE, router |-> "none", bodyChecks |-> FALSE,
   guarded |-> FALSE, failText |-> "Payment verification failed", reason |-> TRUE,
   hint |-> TRUE, proxy |-> "try", validates |-> TRUE, before |-> "none",
   catches |-> TRUE, soft |-> {502}, after |-> FALSE, settledHdr |-> TRUE,
   receipt |-> Receipt4, fallback |-> FALSE]

\* the SERP tracker over the scraping browser (part_003, first version)
SerpRunBrightData ==
  [name |-> "SerpRunBrightData", path |-> "/api/run", price |-> PRICE_USDC,
   needsWallet |-> TRUE, needsKey |-> FALSE, router |-> "none", bodyChecks |-> FALSE,
   guarded |-> FALSE, failText |-> "Payment verification failed", reason |-> TRUE,
   hint |-> FALSE, proxy |-> "none", validates |-> TRUE, before |-> "none",
   catches |-> FALSE, soft |-> {502}, after |-> FALSE, settledHdr |-> FALSE,
   receipt |-> {"txHash", "settled"}, fallback |-> FALSE]

\* the scraping suite (part_003, second version)
SuiteJobs ==
  [name |-> "SuiteJobs", path |-> "/api/jobs", price |-> SUITE_PRICE_USDC,
   needsWallet |-> TRUE, needsKey |-> FALSE, router |-> "none", bodyChecks |-> FALSE,
   guarded |-> FALSE, failText |-> "Payment verification failed", reason |-> TRUE,
   hint |-> FALSE, proxy |-> "none", validates |-> FALSE, before |-> "import",
   catches |-> TRUE, soft |-> {}, after |-> FALSE, settledHdr |-> FALSE,
   receipt |-> {"txHash", "settled"}, fallback |-> FALSE]

SuiteReviews ==
  [name |-> "SuiteReviews", path |-> "/api/reviews", price |-> SUITE_PRICE_USDC,
   needsWallet |-> TRUE, needsKey |-> FALSE, router |-> "none", bodyChecks |-> FALSE,
   guarded |-> FALSE, failText |-> "Payment verification failed", reason |-> TRUE,
   hint |-> FALSE, proxy |-> "none", validates |-> TRUE, before |-> "import",
   catches |-> TRUE, soft |-> {}, after |-> FALSE, settledHdr |-> FALSE,
   receipt |-> {"txHash", "settled"}, fallback |-> FALSE]

SuiteSocial ==
  [name |-> "SuiteSocial", path |-> "/api/social", price |-> SUITE_PRICE_USDC,
   needsWallet |-> TRUE, needsKey |-> FALSE, router |-> "none", bodyChecks |-> FALSE,
   guarded |-> FALSE, failText |-> "Payment verification failed", reason |-> TRUE,
   hint |-> FALSE, proxy |-> "none", validates |-> TRUE, before |-> "import",
   catches |-> TRUE, soft |-> {}, after |-> FALSE, settledHdr |-> FALSE,
   receipt |-> {"txHash", "settled"}, fallback |-> FALSE]

SuiteRun ==
  [name |-> "SuiteRun", path |-> "/api/run", price |-> SUITE_PRICE_USDC,
   needsWallet |-> TRUE, needsKey |-> FALSE, router |-> "none", bodyChecks |-> FALSE,
   guarded |-> FALSE, failText |-> "Payment verification failed", reason |-> TRUE,
   hint |-> TRUE, proxy |-> "try", validates |-> TRUE, before |-> "none",
   catches |-> TRUE, soft |-> {}, after |-> FALSE, settledHdr |-> TRUE,
   receipt |-> Receipt4, fallback |-> FALSE]

SuiteDetails ==
  [name |-> "SuiteDetails", path |-> "/api/details", price |-> SUITE_PRICE_USDC,
   needsWallet |-> TRUE, needsKey |-> FALSE, router |-> "none", bodyChecks |-> FALSE,
   guarded |-> FALSE, failText |-> "Payment verification failed", reason |-> TRUE,
   hint |-> FALSE, proxy |-> "try", validates |-> TRUE, before |-> "none",
   catches |-> TRUE, soft |-> {}, after |-> FALSE, settledHdr |-> TRUE,
   receipt |-> Receipt4, fallback |-> FALSE]

SuiteSerp ==
  [name |-> "SuiteSerp", path |-> "/api/serp", price |-> SERP_PRICE_USDC,
   needsWallet |-> TRUE, needsKey |-> FALSE, router |-> "none", bodyChecks |-> FALSE,
   guarded |-> FALSE, failText |-> "Payment verification failed", reason |-> TRUE,
   hint |-> TRUE, proxy |-> "try", validates |-> TRUE, before |-> "none",
   catches |-> TRUE, soft |-> {}, after |-> FALSE, settledHdr |-> TRUE,
   receipt |-> Receipt4, fallback |-> FALSE]

\* a research handler that validates its body after the payment, as the
\* trending handler validates its parameters
Research_ValidatesAfterPayment ==
  [name |-> "Research", path |-> "/api/research", price |-> PRICE_MULTI,
   needsWallet |-> TRUE, needsKey |-> FALSE, router |-> "research",
   bodyChecks |-> TRUE, guarded |-> TRUE, failText |-> "Payment verification failed",
   reason |-> TRUE, hint |-> FALSE, proxy |-> "bare", validates |-> TRUE,
   before |-> "getProxyExitIp", catches |-> FALSE, soft |-> {}, after |-> FALSE,
   settledHdr |-> TRUE, receipt |-> Receipt4, fallback |-> TRUE]

Research ==
  [name |-> "Research", path |-> "/api/research", price |-> PRICE_MULTI,
   needsWallet |-> TRUE, needsKey |-> FALSE, router |-> "research",
   bodyChecks |-> TRUE, guarded |-> TRUE, failText |-> "Payment verification failed",
   reason |-> TRUE, hint |-> FALSE, proxy |-> "bare", validates |-> FALSE,
   before |-> "getProxyExitIp", catches |-> FALSE, soft |-> {}, after |-> FALSE,
   settledHdr |-> TRUE, receipt |-> Receipt4, fallback |-> TRUE]

Trending ==
  [name |-> "Trending", path |-> "/api/trending", price |-> TRENDING_PRICE_USDC,
   needsWallet |-> TRUE, needsKey |-> FALSE, router |-> "trending",
   bodyChecks |-> FALSE, guarded |-> TRUE, failText |-> "Payment verification failed",
   reason |-> TRUE, hint |-> FALSE, proxy |-> "bare", validates |-> TRUE,
   before |-> "getProxyExitIp", catches |-> FALSE, soft |-> {}, after |-> FALSE,
   settledHdr |-> TRUE, receipt |-> Receipt4, fallback |-> TRUE]

Endpoints ==
  {MapsRun, MapsDetails, Jobs, ReviewsSearch, ReviewsSummary, Reviews, Business,
   LinkedinPerson, LinkedinCompany, LinkedinSearchPeople, LinkedinEmployees,
   Predictions, Research, Trending,
   SerpRun, SerpRunBrightData,
   SuiteJobs, SuiteReviews, SuiteSocial, SuiteRun, SuiteDetails, SuiteSerp}
Routers == {"research", "trending"}

\* The repository holds four versions of the service router; a deployment
\* mounts one of them under /api.
Deployments == {"hub", "serp", "brightdata", "suite"}
Routes(deploy) ==
  IF deploy = "hub"
  THEN {MapsRun, MapsDetails, Jobs, ReviewsSearch, ReviewsSummary, Reviews, Business,
        LinkedinPerson, LinkedinCompany, LinkedinSearchPeople, LinkedinEmployees,
        Predictions, Research, Trending}
  ELSE IF deploy = "serp" THEN {SerpRun}
  ELSE IF deploy = "brightdata" THEN {SerpRunBrightData}
  ELSE {SuiteJobs, SuiteReviews, SuiteSocial, SuiteRun, SuiteDetails, SuiteSerp}

EP(n) == CHOOSE e \in Endpoints : e.name = n

\* ------------------------------------------------- routes without payment
\* The routes of the app and of the routers that never look at the payment
\* headers.  NotFound stands for every path no route matches.
Health == [name |-> "Health", path |-> "/health"]
Root == [name |-> "Root", path |-> "/"]
NotFound == [name |-> "NotFound", path |-> "*"]
Discover ==
  [name |-> "Discover", path |-> "/api/discover",
   failText |-> "Service misconfigured: WALLET_ADDRESS not set"]
DiscoverBrightData ==
  [name |-> "DiscoverBrightData", path |-> "/api/discover",
   failText |-> "WALLET_ADDRESS not set"]
Test == [name |-> "Test", path |-> "/api/test"]

OpenRoutes(deploy) ==
  {Health, Root, NotFound} \cup
  (IF deploy = "serp" THEN {Discover}
   ELSE IF deploy = "brightdata" THEN {DiscoverBrightData, Test}
   ELSE {})

SERVICE_NAME == "google-serp-ai-scraper"

\* ------------------------------------------------------- research platforms
SUPPORTED_PLATFORMS == <<"reddit", "web", "youtube", "twitter">>
DEFAULT_PLATFORMS == <<"reddit", "web">>

\* what an entry of the platforms array can be; "#42" stands for an entry
\* that is no string
PlatformEntries == {"reddit", " Reddit", "web", "YouTube", "twitter", "tiktok", "#42"}

\* typeof p === 'string' ? p.trim().toLowerCase() : ''
TrimLower(p) ==
  CASE p = " Reddit" -> "reddit"
    [] p = "YouTube" -> "youtube"
    [] p = "#42" -> ""
    [] OTHER -> p

Includes(seq, x) == \E i \in 1..Len(seq) : seq[i] = x

RECURSIVE MapTrimLower(_)
MapTrimLower(seq) ==
  IF Len(seq) = 0 THEN <<>>
  ELSE <<TrimLower(Head(seq))>> \o MapTrimLower(Tail(seq))

\* Array.from(new Set(seq)): the first occurrence of each entry, in order
RECURSIVE Unique(_)
Unique(seq) ==
  IF Len(seq) = 0 THEN <<>>
  ELSE LET u == Unique(SubSeq(seq, 1, Len(seq) - 1))
       IN IF Includes(u, seq[Len(seq)]) THEN u ELSE Append(u, seq[Len(seq)])

IsSupported(p) == Includes(SUPPORTED_PLATFORMS, p)

\* the values of body.platforms
PlatformInputs ==
  {[kind |-> "undefined", items |-> <<>>], [kind |-> "string", items |-> <<>>]}
  \cup {[kind |-> "array", items |-> items] :
          items \in UNION {[1..n -> PlatformEntries] : n \in 0..MaxPlatforms}}

parsePlatforms(input) ==
  IF input.kind = "undefined" THEN [platforms |-> DEFAULT_PLATFORMS, error |-> "none"]
  ELSE IF input.kind # "array"
  THEN [platforms |-> <<>>, error |-> "platforms must be an array"]
  ELSE IF Len(input.items) > Len(SUPPORTED_PLATFORMS)
  THEN [platforms |-> <<>>, error |-> "Too many platforms requested"]
  ELSE LET unique == Unique(SelectSeq(MapTrimLower(input.items), IsSupported))
       IN IF Len(unique) = 0
          THEN [platforms |-> <<>>, error |-> "No supported platforms selected"]
          ELSE [platforms |-> unique, error |-> "none"]

\* a price selection that counts three platforms as the full report
TierPrice_ThreeIsFull(nplat) ==
  IF nplat >= 3 THEN PRICE_FULL ELSE IF nplat >= 2 THEN PRICE_MULTI ELSE PRICE_SINGLE

\* POST /api/research: the tier follows the number of platforms requested
TierPrice(nplat) ==
  IF nplat >= 4 THEN PRICE_FULL ELSE IF nplat >= 2 THEN PRICE_MULTI ELSE PRICE_SINGLE

\* the minimum amount the handler passes to verifyPayment
EnforcedPrice(e, nplat) == IF e.name = "Research" THEN TierPrice(nplat) ELSE e.price

\* const walletAddress = process.env.WALLET_ADDRESS || '6eUd...'
WalletAddress(e, environment) ==
  IF environment.wallet THEN CONFIGURED_WALLET
  ELSE IF e.needsWallet THEN <<"", "lower">> ELSE DEFAULT_WALLET

\* --------------------------------------------------------------- responses
SecurityHeaders == {<<"X-Content-Type-Options", "nosniff">>,
                    <<"X-Frame-Options", "DENY">>,
                    <<"Referrer-Policy", "no-referrer">>}

\* cors({origin: '*', exposeHeaders: [...]}): what it sets on every response
CorsHeaders ==
  {<<"Access-Control-Allow-Origin", "*">>,
   <<"Access-Control-Expose-Headers", "X-Payment-Settled,X-Payment-TxHash,Retry-After">>}

\* Every response of a handler passes cors() and the security-header
\* middleware on its way out.
Respond(status, headers, body) ==
  [status |-> status, headers |-> headers \cup SecurityHeaders \cup CorsHeaders,
   body |-> body]

\* a challenge that names a recipient for Solana only
build402Response_SolanaOnly(resource, price, walletAddress) ==
  [status |-> 402, resource |-> resource,
   price |-> [amount |-> DecimalString(price), currency |-> "USDC"],
   message |-> "Payment required",
   recipients |-> [n \in {"solana"} |-> walletAddress]]

\* the body of the 402 challenge
build402Response(resource, price, walletAddress) ==
  [status |-> 402, resource |-> resource,
   price |-> [amount |-> DecimalString(price), currency |-> "USDC"],
   message |-> "Payment required",
   recipients |-> [n \in Networks |-> walletAddress]]

RejectBody(e, verdict) ==
  IF e.reason /\ e.hint
  THEN [error |-> e.failText, reason |-> verdict.error,
        hint |-> "Ensure the transaction is confirmed"]
  ELSE IF e.reason THEN [error |-> e.failText, reason |-> verdict.error]
  ELSE [error |-> e.failText]

Settlement(e, ref, verdict, price) ==
  LET full == [txHash |-> ref.txHash, network |-> ref.network,
               amount |-> IF "amount" \in DOMAIN verdict THEN verdict.amount
                          ELSE IF e.fallback THEN price ELSE -1,
               settled |-> TRUE]
  IN [f \in e.receipt |-> full[f]]

SettledHeaders(e, ref) ==
  IF e.settledHdr
  THEN {<<"X-Payment-Settled", "true">>, <<"X-Payment-TxHash", ref.txHash>>}
  ELSE {}

Success(e, ref, verdict, price) ==
  Respond(200, SettledHeaders(e, ref),
          [data |-> e.name, payment |-> Settlement(e, ref, verdict, price)])

\* app.onError: what an exception that escapes a handler becomes
InternalError == Respond(500, {}, [error |-> "Internal server error"])

\* the scraper reported failure, or threw
ScrapeFailure(e, outcome) ==
  IF outcome.kind = "fail" THEN Respond(outcome.status, {}, [error |-> "Scrape failed"])
  ELSE IF e.catches THEN Respond(502, {}, [error |-> "Scraping failed", details |-> "exception"])
  ELSE InternalError

\* ----------------------------------------------------------- rate limiting
\* One pass of a limiter over the entry of the caller's IP.
RateLimitStep(entry, t, limit) ==
  IF entry = NoEntry \/ t > entry.resetAt
  THEN [entry |-> [count |-> 1, resetAt |-> t + RATE_LIMIT_WINDOW],
        allowed |-> TRUE, retryAfter |-> 0]
  ELSE LET c == entry.count + 1
       IN [entry |-> [entry EXCEPT !.count = c],
           allowed |-> ~(c > limit),
           retryAfter |-> IF c > limit
                          THEN (IF entry.resetAt - t < 1 THEN 1 ELSE (entry.resetAt - t) * 60)
                          ELSE 0]

RateLimited ==
  Respond(429, {<<"Retry-After", "60">>},
          [error |-> "Rate limit exceeded", retryAfter |-> 60])

RouterRateLimited(e, rl) ==
  Respond(429, {<<"Retry-After", IntStr(rl.retryAfter)>>},
          [error |-> "Rate limit exceeded for " \o e.path, retryAfter |-> rl.retryAfter])

\* ------------------------------------------------------ payment verification
ErrorOutcomes == {[kind |-> k] : k \in {"NotFound", "RpcError", "Reverted", "Malformed"}}

\* what one RPC call can return for a request that must pay `min`
RpcOutcomes(min) ==
  ErrorOutcomes \cup
  {[kind |-> "Transfer", recipient |-> r, asset |-> a, amountRaw |-> m] :
     r \in Addresses, a \in Assets, m \in {min - 1, min, min + 1}}

\* a verifier that compares the addresses as they are spelled
Judge_CaseSensitive(outcome, ref, expectedRecipient, min) ==
  IF outcome.kind # "Transfer" THEN [valid |-> FALSE, error |-> outcome.kind]
  ELSE IF outcome.recipient # expectedRecipient
       THEN [valid |-> FALSE, error |-> "WrongRecipient"]
  ELSE IF outcome.asset # USDC(ref.network)
       THEN [valid |-> FALSE, error |-> "WrongAsset"]
  ELSE IF outcome.amountRaw < min
       THEN [valid |-> FALSE, error |-> "InsufficientAmount"]
  ELSE [valid |-> TRUE, amount |-> outcome.amountRaw]

\* the verdict on a decoded chain answer
Judge(outcome, ref, expectedRecipient, min) ==
  IF outcome.kind # "Transfer" THEN [valid |-> FALSE, error |-> outcome.kind]
  ELSE IF ToLowerCase(outcome.recipient) # ToLowerCase(expectedRecipient)
       THEN [valid |-> FALSE, error |-> "WrongRecipient"]
  ELSE IF outcome.asset # USDC(ref.network)
       THEN [valid |-> FALSE, error |-> "WrongAsset"]
  ELSE IF outcome.amountRaw < min
       THEN [valid |-> FALSE, error |-> "InsufficientAmount"]
  ELSE [valid |-> TRUE, amount |-> outcome.amountRaw]

\* a verifier that calls the chain again after any failure
Retryable_AnyError(kind, calls) == kind # "Transfer" /\ calls < MAX_RETRIES

\* does the verifier call the chain again after this outcome of call
\* number calls + 1?
Retryable(kind, calls) == kind = "RpcError" /\ calls < MAX_RETRIES

\* what awaiting verifyPayment gives when the promise is rejected: the
\* handlers provide for it (the try/catch of POST /api/research) or let the
\* exception pass to app.onError
Thrown == [valid |-> FALSE, error |-> "exception"]

\* Replay Guard, first half: the reference is taken or gets reserved
AlreadyUsed(ref, accepted, reserved) == ref \in accepted \cup reserved

\* a guard that records every reference it was asked about
Recorded_Always(accepted, ref, verdict) == accepted \cup {ref}

\* a guard that remembers the latest accepted reference only
Recorded_LatestOnly(accepted, ref, verdict) ==
  IF verdict.valid THEN {ref} ELSE accepted

\* Replay Guard, second half: the reservation becomes a record on success
Recorded(accepted, ref, verdict) ==
  IF verdict.valid THEN accepted \cup {ref} ELSE accepted


\* ---------------------------------------------------------------- requests
\* pc is the await the handler of the request is suspended at:
\*   body       c.req.json()                      (POST /api/research)
\*   verifying  verifyPayment: one chain RPC call
\*   preparing  getProxyExitIp() or a dynamic import, before the scraper
\*   executing  the scraper
\*   finishing  getProxyIp(), after the scraper
\*   proxyCheck, targetCheck   the two fetches of GET /health
\*   done       the response is built
\* ip is the client the limiter counted the request for, ref the payment
\* reference the handler extracted, diagnostics the object GET /health fills.
NoDiagnostics == [status |-> "none"]

IdleRequest ==
  [pc |-> "idle", ip |-> "none", ep |-> "none", ref |-> NoPayment, min |-> 0,
   calls |-> 0, verdict |-> NoVerdict, retried |-> "none", scrape |-> "none",
   diagnostics |-> NoDiagnostics, resp |-> NoResponse]

Answered(e, ref, min, calls, verdict, response) ==
  [pc |-> "done", ip |-> "none", ep |-> e.name, ref |-> ref, min |-> min,
   calls |-> calls, verdict |-> verdict, retried |-> "none", scrape |-> "none",
   diagnostics |-> NoDiagnostics, resp |-> response]

Suspended(pc, e, ref, min, calls, verdict) ==
  [pc |-> pc, ip |-> "none", ep |-> e.name, ref |-> ref, min |-> min,
   calls |-> calls, verdict |-> verdict, retried |-> "none", scrape |-> "none",
   diagnostics |-> NoDiagnostics, resp |-> NoResponse]

\* the request of client `ip` in the state `r`
From(ip, r) == [r EXCEPT !.ip = ip]

\* the request headers the handler looks at besides the payment headers
ArrivalInputs(e) ==
  IF e.bodyChecks THEN {[ctype |-> t, size |-> s] : t, s \in BOOLEAN}
  ELSE {[ctype |-> TRUE, size |-> TRUE]}

\* the request body: whether it passes validation, and the number of
\* distinct supported platforms it asks for
BodyInputs(e) ==
  IF e.bodyChecks
  THEN {[body |-> TRUE, nplat |-> n] : n \in {1, 2, 4}} \cup {[body |-> FALSE, nplat |-> 2]}
  ELSE {[body |-> TRUE, nplat |-> 2]}

\* The handler from its first line to its first await: the response it
\* returns on the way, or NoResponse when it goes on (to read the body, on
\* POST /api/research, or to verifyPayment).
PreVerify(e, ref, in, environment, rl) ==
  IF e.needsWallet /\ ~environment.wallet
  THEN Respond(500, {}, [error |-> "Service misconfigured: WALLET_ADDRESS not set"])
  ELSE IF e.needsKey /\ ~environment.key
  THEN Respond(500, {}, [error |-> "Service misconfigured: BROWSER_INTERNAL_KEY not set"])
  ELSE IF ~rl.allowed THEN RouterRateLimited(e, rl)
  ELSE IF e.bodyChecks /\ ~in.ctype
  THEN Respond(415, {}, [error |-> "Content-Type must be application/json"])
  ELSE IF e.bodyChecks /\ ~in.size
  THEN Respond(413, {}, [error |-> "Request body too large. Max 8192 bytes."])
  ELSE IF ref = NoPayment
  THEN Respond(402, {}, build402Response(e.path, e.price, WalletAddress(e, environment)))
  ELSE NoResponse

\* POST /api/research from the return of c.req.json() to the call of
\* verifyPayment: invalid JSON, topic, platforms or days are answered 400.
ParseBody(e, body) ==
  IF e.bodyChecks /\ ~body.body
  THEN Respond(400, {}, [error |-> "Invalid request body"])
  ELSE NoResponse

\* what the handler meets between the verification and the scraper: are the
\* required parameters there, and is the proxy configured (getProxy throws
\* when it is not)
PostInputs == {[params |-> p, proxy |-> x] : p, x \in BOOLEAN}

\* the handler's next await when nothing stops it after the verification
Proceed(e, ref, min, calls, verdict) ==
  Suspended(IF e.before = "none" THEN "executing" ELSE "preparing",
            e, ref, min, calls, verdict)

\* The handler from the return of verifyPayment to its next await.  `verdict`
\* is what the awaited call gave: the verification result, or Thrown.
AfterVerify(e, ref, min, calls, verdict, post) ==
  IF verdict = Thrown
  THEN Answered(e, ref, min, calls, verdict,
                IF e.guarded
                THEN Respond(502, {}, [error |-> "Payment verification temporarily unavailable"])
                ELSE InternalError)
  ELSE IF ~verdict.valid
  THEN Answered(e, ref, min, calls, verdict, Respond(402, {}, RejectBody(e, verdict)))
  ELSE IF e.proxy = "first" /\ ~post.proxy
  THEN Answered(e, ref, min, calls, verdict, InternalError)
  ELSE IF e.validates /\ ~post.params
  THEN Answered(e, ref, min, calls, verdict,
                Respond(400, {}, [error |-> "Missing required parameter"]))
  ELSE IF e.proxy = "try" /\ ~post.proxy
  THEN Answered(e, ref, min, calls, verdict,
                ScrapeFailure(e, [kind |-> "throw", status |-> 0]))
  ELSE IF e.proxy = "bare" /\ ~post.proxy
  THEN Answered(e, ref, min, calls, verdict, InternalError)
  ELSE Proceed(e, ref, min, calls, verdict)

\* the handler went past its check of verification.valid
Passed(r) ==
  \/ r.pc \in {"preparing", "executing", "finishing"}
  \/ r.pc = "done" /\ r.resp.status # 402 /\ r.verdict # Thrown

\* does the router-level limiter run for this request?
ReachesRouterLimiter(e, environment) ==
  /\ e.router # "none"
  /\ ~(e.needsWallet /\ ~environment.wallet)
  /\ ~(e.needsKey /\ ~environment.key)

\* A response is written out before the event loop takes up other work.
NoneAnswered == \A p \in Requests : req[p].pc # "done"

\* The counter of a limiter entry is followed up to one request past the
\* limit of its window.
Counted(entry, t, limit) == entry.count <= limit \/ t > entry.resetAt

\* ----------------------------------------------------------------- actions
\* the settings a deployment can run with
Settings ==
  {[deploy |-> d, wallet |-> w, key |-> TRUE] : d \in Deployments, w \in BOOLEAN}
  \cup {[deploy |-> "serp", wallet |-> TRUE, key |-> FALSE]}

\* the routes that receive requests in one behaviour: at most MaxRoutes of
\* the routes of the deployment
Traffic(deploy) ==
  {t \in SUBSET {e.name : e \in Routes(deploy)} :
     Cardinality(t) >= 1 /\ Cardinality(t) <= MaxRoutes}

Init ==
  /\ \E s \in Settings :
     \E t \in Traffic(s.deploy) :
       env = [deploy |-> s.deploy, wallet |-> s.wallet, key |-> s.key, traffic |-> t]
  /\ served = [r \in Refs |-> 0]
  /\ now = 0
  /\ rateLimits = [ip \in IPs |-> NoEntry]
  /\ routerLimits = [r \in Routers |-> [ip \in IPs |-> NoEntry]]
  /\ replay = {}
  /\ pending = {}
  /\ req = [q \in Requests |-> IdleRequest]
  /\ call = NoCall
  /\ admitted = [ip \in IPs |-> 0]

\* The route handler calls verifyPayment, its only call into payment.ts for
\* a presented reference.  Behind that call are the two parts the payment
\* core keeps apart: the Replay Guard (AlreadyUsed, Recorded), which turns
\* the request away at once or reserves the reference, and the verifier
\* (Judge, Retryable), which queries the chain and never looks at the guard.
StartVerify(q, ip, e, ref, min) ==
  IF AlreadyUsed(ref, replay, pending)
  THEN /\ \E post \in PostInputs :
            LET next == AfterVerify(e, ref, min, 0,
                                    [valid |-> FALSE, error |-> "AlreadyUsed"], post)
            IN /\ req' = [req EXCEPT ![q] = From(ip, next)]
               /\ served' = IF Passed(next) THEN [served EXCEPT ![ref] = @ + 1]
                            ELSE served
       /\ UNCHANGED pending
  ELSE /\ pending' = pending \cup {ref}
       /\ req' = [req EXCEPT
                    ![q] = From(ip, Suspended("verifying", e, ref, min, 0, NoVerdict))]
       /\ UNCHANGED served

\* A route without payment from its first line to its first await: the
\* response it returns on the way, or NoResponse when it goes on (GET /health
\* to its first fetch, GET /api/test to the scraper).  `params` tells whether
\* the request has the parameter q, which GET /api/test requires.
OpenStart(o, params, environment) ==
  IF o.name = "Root"
  THEN Respond(200, {}, [name |-> "Multi-Service Hub (Proxies.sx Marketplace)",
                         description |-> "Aggregated intelligence services powered by mobile proxies.",
                         version |-> "1.2.1",
                         infrastructure |-> "Proxies.sx mobile proxies"])
  ELSE IF o.name = "NotFound"
  THEN Respond(404, {}, [error |-> "Not found",
                         endpoints |-> <<"/", "/health", "/api/jobs", "/api/predictions",
                                         "/api/run", "/api/details", "/api/research",
                                         "/api/trending", "/api/reviews/search">>])
  ELSE IF o.name \in {"Discover", "DiscoverBrightData"}
  THEN IF ~environment.wallet THEN Respond(500, {}, [error |-> o.failText])
       ELSE LET b == build402Response("/api/run", PRICE_USDC, CONFIGURED_WALLET)
            IN Respond(200, {}, [status |-> b.status, resource |-> b.resource,
                                 price |-> b.price, message |-> b.message,
                                 recipients |-> b.recipients,
                                 service |-> SERVICE_NAME])
  ELSE IF o.name = "Test" /\ ~params
  THEN Respond(400, {}, [error |-> "Missing parameter: q"])
  ELSE NoResponse

\* the await a route without payment is suspended at first; GET /health has
\* created its diagnostics object
OpenSuspended(o) ==
  IF o.name = "Health"
  THEN [Suspended("proxyCheck", o, NoPayment, 0, 0, NoVerdict)
          EXCEPT !.diagnostics =
                   [status |-> "healthy", proxy |-> [status |-> "unknown"],
                    targets |-> [polymarket |-> "unknown", kalshi |-> "unknown"]]]
  ELSE Suspended("executing", o, NoPayment, 0, 0, NoVerdict)

\* A request of client `ip` arrives: the app-level rate limiter, then the
\* route handler up to its first await (or to the response it returns before
\* that).
Arrive(q, ip) ==
  /\ NoneAnswered
  /\ req[q].pc = "idle"
  /\ \A p \in Requests : p < q => req[p].pc # "idle"
  /\ Counted(rateLimits[ip], now, RATE_LIMIT)
  /\ LET opens == rateLimits[ip] = NoEntry \/ now > rateLimits[ip].resetAt
         app == RateLimitStep(rateLimits[ip], now, RATE_LIMIT)
     IN /\ rateLimits' = [rateLimits EXCEPT ![ip] = app.entry]
        /\ admitted' = [admitted EXCEPT
                          ![ip] = IF ~app.allowed THEN @ ELSE IF opens THEN 1 ELSE @ + 1]
        /\ \/ \E e \in {r \in Routes(env.deploy) : r.name \in env.traffic},
                 ref \in Refs \cup {NoPayment} :
              \E in \in ArrivalInputs(e) :
                LET reaches == app.allowed /\ ReachesRouterLimiter(e, env)
                    rl == IF reaches
                          THEN RateLimitStep(routerLimits[e.router][ip], now,
                                             ROUTER_RATE_LIMIT)
                          ELSE [entry |-> NoEntry, allowed |-> TRUE, retryAfter |-> 0]
                    early == IF ~app.allowed THEN RateLimited
                             ELSE PreVerify(e, ref, in, env, rl)
                IN /\ reaches => Counted(routerLimits[e.router][ip], now, ROUTER_RATE_LIMIT)
                   /\ routerLimits' = IF reaches
                                      THEN [routerLimits EXCEPT ![e.router][ip] = rl.entry]
                                      ELSE routerLimits
                   /\ IF early # NoResponse
                      THEN /\ req' = [req EXCEPT
                                        ![q] = From(ip, Answered(e, ref, 0, 0, NoVerdict, early))]
                           /\ UNCHANGED <<pending, served>>
                      ELSE IF e.bodyChecks
                      THEN /\ req' = [req EXCEPT
                                        ![q] = From(ip, Suspended("body", e, ref, 0, 0, NoVerdict))]
                           /\ UNCHANGED <<pending, served>>
                      ELSE StartVerify(q, ip, e, ref, EnforcedPrice(e, 2))
           \/ \E o \in OpenRoutes(env.deploy) :
              \E params \in BOOLEAN :
                LET early == IF ~app.allowed THEN RateLimited
                             ELSE OpenStart(o, params, env)
                IN /\ req' = [req EXCEPT
                                ![q] = From(ip, IF early # NoResponse
                                                THEN Answered(o, NoPayment, 0, 0, NoVerdict, early)
                                                ELSE OpenSuspended(o))]
                   /\ UNCHANGED <<routerLimits, pending, served>>
  /\ UNCHANGED <<call, env, now, replay>>

\* An OPTIONS request: cors(), registered first, answers it with 204, adds
\* the allowed methods and headers, and calls no later middleware: neither
\* the security headers nor the limiter run.
Preflight(q, ip) ==
  /\ NoneAnswered
  /\ req[q].pc = "idle"
  /\ \A p \in Requests : p < q => req[p].pc # "idle"
  /\ req' = [req EXCEPT
               ![q] = From(ip, Answered([name |-> "Options"], NoPayment, 0, 0, NoVerdict,
                                        [status |-> 204,
                                         headers |-> CorsHeaders \cup
                                           {<<"Access-Control-Allow-Methods",
                                              "GET,HEAD,PUT,POST,DELETE,PATCH">>,
                                            <<"Access-Control-Allow-Headers",
                                              "Content-Type,Payment-Signature,X-Payment-Signature,X-Payment-Network">>,
                                            <<"Vary", "Access-Control-Request-Headers">>},
                                         body |-> [none |-> TRUE]]))]
  /\ UNCHANGED <<admitted, call, env, now, rateLimits, routerLimits, replay, pending, served>>

\* c.req.json() of POST /api/research returns: the body is validated, the
\* price of the request is chosen and verifyPayment is called.
BodyRead(q) ==
  /\ NoneAnswered
  /\ req[q].pc = "body"
  /\ LET r == req[q]
         e == EP(r.ep)
     IN \E body \in BodyInputs(e) :
          LET early == ParseBody(e, body)
          IN IF early # NoResponse
             THEN /\ req' = [req EXCEPT
                               ![q] = From(r.ip, Answered(e, r.ref, 0, 0, NoVerdict, early))]
                  /\ UNCHANGED <<pending, served>>
             ELSE StartVerify(q, r.ip, e, r.ref, EnforcedPrice(e, body.nplat))
  /\ UNCHANGED <<admitted, call, env, now, rateLimits, routerLimits, replay>>

\* One chain RPC call of a running verification returns, or the awaited
\* verifyPayment is rejected with an exception.  The reservation of the
\* reference ends with the verification, whatever its outcome.
RpcReturn(q) ==
  /\ NoneAnswered
  /\ req[q].pc = "verifying"
  /\ LET r == req[q]
         e == EP(r.ep)
     IN \E outcome \in RpcOutcomes(r.min) \cup {[kind |-> "exception"]},
           post \in PostInputs :
          IF Retryable(outcome.kind, r.calls)
          THEN /\ req' = [req EXCEPT ![q].calls = r.calls + 1,
                                     ![q].retried = outcome.kind]
               /\ UNCHANGED <<replay, pending, served>>
          ELSE LET verdict == IF outcome.kind = "exception" THEN Thrown
                              ELSE Judge(outcome, r.ref, WalletAddress(e, env), r.min)
                   next == AfterVerify(e, r.ref, r.min, r.calls + 1, verdict, post)
               IN /\ replay' = Recorded(replay, r.ref, verdict)
                  /\ pending' = pending \ {r.ref}
                  /\ served' = IF Passed(next) THEN [served EXCEPT ![r.ref] = @ + 1]
                               ELSE served
                  /\ req' = [req EXCEPT ![q] = From(r.ip, next)]
  /\ UNCHANGED <<admitted, call, env, now, rateLimits, routerLimits>>

\* The await before the scraper returns: getProxyExitIp() gives an address
\* or null and never throws; a dynamic import gives the module or throws.
Prepared(q) ==
  /\ NoneAnswered
  /\ req[q].pc = "preparing"
  /\ LET r == req[q]
         e == EP(r.ep)
     IN \E loaded \in IF e.before = "import" THEN BOOLEAN ELSE {TRUE} :
          req' = [req EXCEPT ![q] =
                    IF loaded THEN [r EXCEPT !.pc = "executing"]
                    ELSE From(r.ip, Answered(e, r.ref, r.min, r.calls, r.verdict,
                                             InternalError))]
  /\ UNCHANGED <<admitted, call, env, now, rateLimits, routerLimits, replay, pending, served>>

\* scrapeGoogleSerp of the scraping-browser version catches every exception
\* of its attempts and never reports a block; the other scrapers may throw.
ScrapeOutcomes(e) ==
  {[kind |-> "ok", status |-> 200]}
  \cup (IF e.name = "SerpRunBrightData" THEN {} ELSE {[kind |-> "throw", status |-> 0]})
  \cup {[kind |-> "fail", status |-> s] : s \in e.soft}

\* GET /api/test after scrapeGoogleSerp returned
TestAnswer(outcome) ==
  IF outcome.kind = "fail"
  THEN Respond(outcome.status, {}, [error |-> "Bright Data credentials missing in .env"])
  ELSE Respond(200, {}, [query |-> "q", results |-> "results", _test |-> TRUE])

\* The scraper of a request returns, reports failure or throws.  The handlers
\* that report the proxy's exit address go on to getProxyIp().
ScraperReturn(q) ==
  /\ NoneAnswered
  /\ req[q].pc = "executing"
  /\ LET r == req[q]
     IN IF r.ep = Test.name
        THEN \E outcome \in ScrapeOutcomes(SerpRunBrightData) :
               req' = [req EXCEPT ![q].pc = "done",
                                  ![q].scrape = outcome.kind,
                                  ![q].resp = TestAnswer(outcome)]
        ELSE LET e == EP(r.ep)
             IN \E outcome \in ScrapeOutcomes(e) :
                  req' = [req EXCEPT ![q].pc = IF outcome.kind = "ok" /\ e.after
                                               THEN "finishing" ELSE "done",
                                     ![q].scrape = outcome.kind,
                                     ![q].resp = IF outcome.kind # "ok"
                                                 THEN ScrapeFailure(e, outcome)
                                                 ELSE IF e.after THEN NoResponse
                                                 ELSE Success(e, r.ref, r.verdict, r.min)]
  /\ UNCHANGED <<admitted, call, env, now, rateLimits, routerLimits, replay, pending, served>>

\* getProxyIp() returns the exit address or 'unknown', and never throws; the
\* handler builds its 200.
ProxyIpReturn(q) ==
  /\ NoneAnswered
  /\ req[q].pc = "finishing"
  /\ LET r == req[q]
         e == EP(r.ep)
     IN req' = [req EXCEPT ![q].pc = "done",
                           ![q].resp = Success(e, r.ref, r.verdict, r.min)]
  /\ UNCHANGED <<admitted, call, env, now, rateLimits, routerLimits, replay, pending, served>>

\* what an awaited fetch gives: a response that is ok, one that is not, or
\* an exception
FetchOutcomes == {"ok", "notOk", "throw"}

\* GET /health: the fetch through the proxy returns or throws; the handler
\* goes on to the fetch of the Polymarket health page.
HealthProxyReturn(q) ==
  /\ NoneAnswered
  /\ req[q].pc = "proxyCheck"
  /\ \E outcome \in FetchOutcomes :
       req' = [req EXCEPT
                 ![q].pc = "targetCheck",
                 ![q].diagnostics.proxy.status =
                     IF outcome = "ok" THEN "connected"
                     ELSE IF outcome = "notOk" THEN "failed" ELSE "error",
                 ![q].diagnostics.status =
                     IF outcome = "throw" THEN "degraded" ELSE @]
  /\ UNCHANGED <<admitted, call, env, now, rateLimits, routerLimits, replay, pending, served>>

\* GET /health: the second fetch returns or throws; the handler answers 200
\* with the diagnostics.
HealthTargetReturn(q) ==
  /\ NoneAnswered
  /\ req[q].pc = "targetCheck"
  /\ \E outcome \in FetchOutcomes :
       LET d == [req[q].diagnostics EXCEPT
                   !.targets.polymarket = IF outcome = "ok" THEN "up"
                                          ELSE IF outcome = "notOk" THEN "down"
                                          ELSE "error"]
       IN req' = [req EXCEPT
                    ![q].pc = "done",
                    ![q].diagnostics = d,
                    ![q].resp = Respond(200, {}, [status |-> d.status, proxy |-> d.proxy,
                                                  targets |-> d.targets,
                                                  version |-> "1.2.1"])]
  /\ UNCHANGED <<admitted, call, env, now, rateLimits, routerLimits, replay, pending, served>>

\* The response leaves the server; the slot is free for the next request.
Deliver(q) ==
  /\ req[q].pc = "done"
  /\ req' = [req EXCEPT ![q] = IdleRequest]
  /\ UNCHANGED <<admitted, call, env, now, rateLimits, routerLimits, replay, pending, served>>

\* Time passes.
Tick ==
  /\ NoneAnswered
  /\ now < MaxNow
  /\ now' = now + 1
  /\ UNCHANGED <<admitted, call, env, rateLimits, routerLimits, replay, pending, req, served>>

\* setInterval: expired entries leave the app-level limiter
Cleanup ==
  /\ NoneAnswered
  /\ \E ip \in IPs : rateLimits[ip] # NoEntry /\ now > rateLimits[ip].resetAt
  /\ rateLimits' = [ip \in IPs |->
                      IF rateLimits[ip] # NoEntry /\ now > rateLimits[ip].resetAt
                      THEN NoEntry ELSE rateLimits[ip]]
  /\ UNCHANGED <<admitted, call, env, now, routerLimits, replay, pending, req, served>>

Next ==
  \/ \E q \in Requests, ip \in Clients : Arrive(q, ip)
  \/ \E q \in Requests, ip \in Clients : Preflight(q, ip)
  \/ \E q \in Requests : BodyRead(q)
  \/ \E q \in Requests : RpcReturn(q)
  \/ \E q \in Requests : Prepared(q)
  \/ \E q \in Requests : ScraperReturn(q)
  \/ \E q \in Requests : ProxyIpReturn(q)
  \/ \E q \in Requests : HealthProxyReturn(q)
  \/ \E q \in Requests : HealthTargetReturn(q)
  \/ \E q \in Requests : Deliver(q)
  \/ Tick
  \/ Cleanup

Spec == Init /\ [][Next]_vars

\* ------------------------------------- the scraping-browser service alone
\* The SERP service over the scraping browser, its wallet configured, with
\* its paid traffic on GET /api/run.
InitApp == Init /\ env = [deploy |-> "brightdata", wallet |-> TRUE, key |-> TRUE,
                           traffic |-> {"SerpRunBrightData"}]

NextApp ==
  \/ \E q \in Requests, ip \in Clients : Arrive(q, ip)
  \/ \E q \in Requests, ip \in Clients : Preflight(q, ip)
  \/ \E q \in Requests : RpcReturn(q)
  \/ \E q \in Requests : ScraperReturn(q)
  \/ \E q \in Requests : HealthProxyReturn(q)
  \/ \E q \in Requests : HealthTargetReturn(q)
  \/ \E q \in Requests : Deliver(q)
  \/ Tick
  \/ Cleanup

SpecApp == InitApp /\ [][NextApp]_vars

\* ------------------------------------------------ functions on their own
InitFunctions == InitApp

\* the minimum amounts the handlers ask verifyPayment to enforce
Prices == {EnforcedPrice(e, n) : e \in Endpoints, n \in {1, 2, 4}}

\* verifyPayment judges the transfer the chain reports for a fresh reference
VerifyCall ==
  /\ call = NoCall
  /\ \E network \in Networks, expected \in {CONFIGURED_WALLET, DEFAULT_WALLET},
        min \in Prices :
     \E outcome \in RpcOutcomes(min) :
       call' = [fn |-> "verifyPayment", network |-> network, expected |-> expected,
                min |-> min, outcome |-> outcome,
                result |-> Judge(outcome, [network |-> network, txHash |-> "0x01"],
                                 expected, min)]
  /\ UNCHANGED <<admitted, env, now, rateLimits, routerLimits, replay, pending, req, served>>

\* POST /api/research chooses the amount it asks verifyPayment to enforce
PriceCall ==
  /\ call = NoCall
  /\ \E input \in PlatformInputs :
       LET parsed == parsePlatforms(input)
       IN call' = [fn |-> "researchPrice", input |-> input, parsed |-> parsed,
                   price |-> IF parsed.error # "none" THEN 0
                             ELSE EnforcedPrice(Research, Len(parsed.platforms))]
  /\ UNCHANGED <<admitted, env, now, rateLimits, routerLimits, replay, pending, req, served>>

\* One request sent twice to a paid endpoint: without payment, answered by
\* the 402 challenge, and with a payment reference, reaching verifyPayment.
QuoteCall ==
  /\ call = NoCall
  /\ \E e \in Endpoints :
     \E in \in ArrivalInputs(e), body \in BodyInputs(e), ref \in Refs :
       LET rl == [entry |-> NoEntry, allowed |-> TRUE, retryAfter |-> 0]
           challenge == PreVerify(e, NoPayment, in, env, rl)
           resent == PreVerify(e, ref, in, env, rl)
       IN /\ challenge.status = 402
          /\ resent = NoResponse
          /\ ParseBody(e, body) = NoResponse
          /\ call' = [fn |-> "quote", ep |-> e.name, nplat |-> body.nplat, ref |-> ref,
                      advertised |-> challenge.body.price.amount,
                      enforced |-> DecimalString(EnforcedPrice(e, body.nplat))]
  /\ UNCHANGED <<admitted, env, now, rateLimits, routerLimits, replay, pending, req, served>>

NextFunctions ==
  \/ VerifyCall
  \/ PriceCall
  \/ QuoteCall

SpecFunctions == InitFunctions /\ [][NextFunctions]_vars

\* ------------------------------------------------------------------ claims
Done(q) == req[q].pc = "done"
Verified(q) == req[q].verdict # NoVerdict
Rejected(q) == Done(q) /\ Verified(q) /\ ~req[q].verdict.valid
Status(q) == req[q].resp.status
Body(q) == req[q].resp.body
Has(q, field) == field \in DOMAIN Body(q)
\* the request is past the payment check and its response is not built yet
Running(q) == req[q].pc \in {"preparing", "executing", "finishing"}
\* the request went to a route that asks for payment
Paid(q) == req[q].ep \in {e.name : e \in Endpoints}

\* C1: For every payment reference at most one request gets past the payment
\* check, whatever the interleaving, and every other request that presents
\* the reference once it is accepted is answered 402 as already used.
C1_AtMostOneAccepted ==
  /\ \A r \in Refs : served[r] <= 1
  /\ \A r \in Refs : Cardinality({q \in Requests : Running(q) /\ req[q].ref = r}) <= 1
  /\ \A q \in Requests :
       (Done(q) /\ req[q].ref \in replay /\ ~req[q].verdict.valid)
         => /\ Status(q) = 402
            /\ Has(q, "reason") /\ Body(q).reason = "AlreadyUsed"

\* C2: The scraper runs for a request only after verifyPayment returned
\* valid: true for that request; a request without payment reference is
\* never verified and never scraped, and on a paid endpoint it is answered
\* with the 402 challenge.
C2_PaidBeforeScraping ==
  \A q \in Requests :
    /\ (Running(q) \/ req[q].scrape # "none") =>
         (req[q].verdict.valid /\ req[q].ref # NoPayment /\ req[q].calls >= 1)
    /\ (req[q].pc # "idle" /\ req[q].ref = NoPayment) =>
         (~Verified(q) /\ req[q].calls = 0 /\ req[q].scrape = "none" /\ ~Running(q))
    /\ (Paid(q) /\ req[q].ref = NoPayment) =>
         /\ Done(q) /\ Status(q) = 402
         /\ Has(q, "message") /\ Body(q).message = "Payment required"

\* C3: Every request whose verification succeeded ends with 200 or 502.
C3_OnlySuccessOrHandlerFailed ==
  \A q \in Requests :
    (Done(q) /\ Verified(q) /\ req[q].verdict.valid) => Status(q) \in {200, 502}

\* C4: When verification succeeded and the business logic threw, the answer
\* is 502 and the reference stays recorded; a later request with the same
\* reference is rejected as AlreadyUsed without any chain query.
C4_HandlerFailureKeepsPayment ==
  \A q \in Requests :
    /\ (Done(q) /\ req[q].verdict.valid /\ req[q].scrape = "throw") =>
         (Status(q) = 502 /\ req[q].ref \in replay)
    /\ (Rejected(q) /\ req[q].ref \in replay) =>
         (req[q].verdict.error = "AlreadyUsed" /\ req[q].calls = 0)

\* C5: A reference is recorded only when its verification succeeded; a
\* failed verification leaves the reference free, and a request is turned
\* away as AlreadyUsed only while the reference is recorded or reserved.
C5_FailedVerificationDoesNotConsume ==
  /\ \A r \in replay : served[r] >= 1
  /\ \A q \in Requests :
       (Rejected(q) /\ req[q].verdict.error # "AlreadyUsed")
         => req[q].ref \notin replay \cup pending
  /\ \A q \in Requests :
       req[q].pc = "verifying" => (req[q].ref \in pending /\ req[q].ref \notin replay)

\* a verification failed with NotFound and the reference is free again
C5_Witness ==
  \E q \in Requests :
    /\ Rejected(q) /\ req[q].verdict.error = "NotFound"
    /\ req[q].ref \notin replay \cup pending
    /\ req[q].calls >= 1

\* C6: The set of accepted references only grows.
C6_AcceptedOnlyGrows == [][replay \subseteq replay']_vars

\* both references are recorded and a handler has failed after acceptance
C6_Witness ==
  /\ replay = Refs
  /\ \E q \in Requests : Done(q) /\ req[q].scrape = "throw" /\ req[q].ref \in replay

\* C7: Every failure of the verification phase, an unreachable RPC and an
\* exception of the verifier included, is answered 402, never 5xx.
C7_VerificationFailureIs402 ==
  \A q \in Requests : Rejected(q) => Status(q) = 402

\* the decimal strings of the configured prices, as the source writes them
ExpectedAmount ==
  [MapsRun |-> "0.005", MapsDetails |-> "0.005", Jobs |-> "0.005",
   ReviewsSearch |-> "0.002", ReviewsSummary |-> "0.005", Reviews |-> "0.005",
   Business |-> "0.002", LinkedinPerson |-> "0.03", LinkedinCompany |-> "0.05",
   LinkedinSearchPeople |-> "0.1", LinkedinEmployees |-> "0.1",
   Predictions |-> "0.05", Research |-> "0.5", Trending |-> "0.1",
   SerpRun |-> "0.01", SerpRunBrightData |-> "0.01",
   SuiteJobs |-> "0.005", SuiteReviews |-> "0.005", SuiteSocial |-> "0.005",
   SuiteRun |-> "0.005", SuiteDetails |-> "0.005", SuiteSerp |-> "0.003"]

Challenged(q) == Done(q) /\ Paid(q) /\ req[q].ref = NoPayment /\ Status(q) = 402

\* the body of the challenge the claim describes
ChallengeBody(q) ==
  /\ Body(q).status = 402
  /\ Body(q).resource = EP(req[q].ep).path
  /\ Body(q).message = "Payment required"
  /\ Body(q).price.amount = ExpectedAmount[req[q].ep]
  /\ DOMAIN Body(q).recipients = Networks
  /\ \A n \in Networks : Body(q).recipients[n][1] # ""

\* C8 as claimed: every request to a priced endpoint without payment
\* reference is answered 402 with the challenge body.
C8_NoPaymentIs402 ==
  \A q \in Requests :
    (Done(q) /\ Paid(q) /\ req[q].ref = NoPayment) =>
      (Status(q) = 402 /\ ChallengeBody(q))

\* C8, amended: a request to a priced endpoint without payment reference is
\* answered 402 with status 402, the endpoint path as resource, the message
\* 'Payment required', the configured price as decimal string and a recipient
\* address for every supported network, unless an earlier check of the
\* handler answers it: 429 when a rate limit of the client is used up, 500
\* when the wallet or the browser key is not configured, 415 or 413 for a
\* POST /api/research with another content type or too large a body.
C8_ChallengeShape ==
  \A q \in Requests :
    (Done(q) /\ Paid(q) /\ req[q].ref = NoPayment) =>
      LET e == EP(req[q].ep)
          ip == req[q].ip
      IN /\ Status(q) \in {402, 429, 500, 415, 413}
         /\ Status(q) = 429 =>
              \/ rateLimits[ip].count > RATE_LIMIT
              \/ e.router # "none" /\ routerLimits[e.router][ip].count > ROUTER_RATE_LIMIT
         /\ Status(q) = 500 =>
              \/ e.needsWallet /\ ~env.wallet
              \/ e.needsKey /\ ~env.key
         /\ Status(q) \in {415, 413} => e.bodyChecks
         /\ Status(q) = 402 => ChallengeBody(q)

\* GET /api/predictions without payment is challenged for 0.05 USDC
C8_Witness ==
  \E q \in Requests :
    /\ Challenged(q) /\ req[q].ep = "Predictions"
    /\ Body(q).price.amount = "0.05" /\ Body(q).resource = "/api/predictions"
    /\ DOMAIN Body(q).recipients = Networks

\* C9: Every 200 response of a paid endpoint carries settlement metadata with
\* the presented txHash and network, the verified amount and settled = true.
C9_SettlementMetadata ==
  \A q \in Requests :
    (Done(q) /\ Paid(q) /\ Status(q) = 200) =>
      /\ Has(q, "payment")
      /\ DOMAIN Body(q).payment = Receipt4
      /\ Body(q).payment["txHash"] = req[q].ref.txHash
      /\ Body(q).payment["network"] = req[q].ref.network
      /\ Body(q).payment["amount"] = req[q].verdict.amount
      /\ Body(q).payment["settled"] = TRUE

\* C10: Every 200 response of a paid endpoint carries the header
\* X-Payment-Settled: true.
C10_SettledHeader ==
  \A q \in Requests :
    (Done(q) /\ Paid(q) /\ Status(q) = 200) => <<"X-Payment-Settled", "true">> \in req[q].resp.headers

\* C11: A 502 answered after the payment was accepted still reports the
\* settlement of the presented reference (in the body or in the headers).
C11_FailureReportsSettlement ==
  \A q \in Requests :
    (Done(q) /\ Verified(q) /\ req[q].verdict.valid /\ Status(q) = 502) =>
      \/ Has(q, "payment")
      \/ <<"X-Payment-Settled", "true">> \in req[q].resp.headers

\* C12: Every 402 that rejects a presented payment reference has a body with
\* an error field and a reason field.
C12_RejectionHasErrorAndReason ==
  \A q \in Requests :
    (Rejected(q) /\ Status(q) = 402) => (Has(q, "error") /\ Has(q, "reason"))

\* C13: verifyPayment returns valid exactly when the transfer goes to the
\* expected recipient (whatever the spelling of the address), in the USDC
\* asset of the network, for at least the required amount; one raw unit less
\* is rejected, more is accepted, and the reported amount is the amount sent.
C13_VerifierExact ==
  call.fn = "verifyPayment" =>
    LET o == call.outcome
        matches == /\ o.kind = "Transfer"
                   /\ o.recipient[1] = call.expected[1]
                   /\ o.asset = (IF call.network = "base" THEN "0x8335" ELSE "EPjF")
                   /\ o.amountRaw >= call.min
    IN /\ call.result.valid <=> matches
       /\ call.result.valid => call.result.amount = o.amountRaw
       /\ (o.kind = "Transfer" /\ o.amountRaw = call.min - 1) => ~call.result.valid

\* an overpayment to the wallet, its address spelled in another case
C13_Witness ==
  /\ call.fn = "verifyPayment"
  /\ call.outcome.kind = "Transfer"
  /\ call.outcome.recipient = <<"wallet", "lower">>
  /\ call.expected = <<"wallet", "mixed">>
  /\ call.outcome.amountRaw = call.min + 1
  /\ call.result.valid /\ call.result.amount = call.min + 1

\* the causes of rejection a caller must be able to tell apart
RejectionCauses == {"AlreadyUsed", "Reverted", "WrongRecipient", "InsufficientAmount"}

\* C14: The 402 that rejects a presented reference tells its cause: the same
\* endpoint answers a replay, a reverted transaction, a wrong recipient and
\* an underpayment with pairwise different responses.
C14_DistinctReasons ==
  \A q \in Requests :
    (Rejected(q) /\ req[q].verdict.error \in RejectionCauses) =>
      /\ Has(q, "reason") /\ Body(q).reason = req[q].verdict.error
      /\ \A k \in RejectionCauses \ {req[q].verdict.error} :
           req[q].resp # Respond(402, {}, RejectBody(EP(req[q].ep),
                                                     [valid |-> FALSE, error |-> k]))

\* C15: While a request is verified only an RpcError makes the verifier call
\* the chain again, and at most MAX_RETRIES times; any other outcome ends
\* the verification with the call that returned it.
C15_OnlyRpcErrorRetried ==
  \A q \in Requests :
    /\ req[q].calls <= MAX_RETRIES + 1
    /\ req[q].pc = "verifying" =>
         /\ req[q].calls <= MAX_RETRIES
         /\ req[q].calls >= 1 => req[q].retried = "RpcError"
         /\ req[q].calls = 0 => req[q].retried = "none"
    /\ (Rejected(q) /\ req[q].verdict.error = "RpcError") =>
         req[q].calls = MAX_RETRIES + 1

\* one verification ended with NotFound on its first call while another has
\* used up its retries
C15_Witness ==
  \E q, p \in Requests :
    /\ Rejected(q) /\ req[q].verdict.error = "NotFound" /\ req[q].calls = 1
    /\ req[p].pc = "verifying" /\ req[p].calls = MAX_RETRIES
    /\ req[p].retried = "RpcError"

\* the supported platform an entry of the request names, if any
NamedPlatform(entry) ==
  IF entry \in {"reddit", " Reddit"} THEN "reddit"
  ELSE IF entry = "web" THEN "web"
  ELSE IF entry \in {"youtube", "YouTube"} THEN "youtube"
  ELSE IF entry = "twitter" THEN "twitter"
  ELSE "unsupported"

\* the distinct supported platforms a platforms field asks for
RequestedPlatforms(input) ==
  IF input.kind = "undefined" THEN {"reddit", "web"}
  ELSE {NamedPlatform(input.items[i]) : i \in 1..Len(input.items)} \ {"unsupported"}

\* C16: POST /api/research enforces 0.10 USDC for one distinct supported
\* platform, 0.50 for two or three and 1.00 for all four, counted after
\* lower-casing, dropping unsupported names and duplicates; an omitted
\* platforms field counts as the two default platforms.
C16_ResearchTiers ==
  (call.fn = "researchPrice" /\ call.parsed.error = "none") =>
    LET n == Cardinality(RequestedPlatforms(call.input))
    IN /\ Len(call.parsed.platforms) = n
       /\ n = 1 => DecimalString(call.price) = "0.1"
       /\ n \in {2, 3} => DecimalString(call.price) = "0.5"
       /\ n = 4 => DecimalString(call.price) = "1"
       /\ n \in 1..4

\* two platforms named in mixed case with a duplicate and an unsupported
\* name cost 0.50
C16_Witness ==
  /\ call.fn = "researchPrice"
  /\ call.input.kind = "array"
  /\ call.input.items = <<" Reddit", "reddit", "tiktok", "web">>
  /\ call.parsed.platforms = <<"reddit", "web">>
  /\ call.price = PRICE_MULTI

\* C17: For each client IP at most RATE_LIMIT requests of one limiter window
\* reach a route handler; every further request of the client in that window
\* is answered 429 with Retry-After: 60 and reaches neither a handler nor the
\* payment verification.
C17_AtMostLimitPerWindow ==
  [][\A ip \in IPs :
       /\ admitted'[ip] <= RATE_LIMIT
       /\ \A q \in Requests :
            (/\ req[q].pc = "idle" /\ req'[q].pc # "idle" /\ req'[q].ip = ip
             /\ rateLimits[ip] # NoEntry /\ now <= rateLimits[ip].resetAt
             /\ rateLimits[ip].count >= RATE_LIMIT)
            => /\ req'[q].pc = "done"
               /\ req'[q].resp.status = 429
               /\ <<"Retry-After", "60">> \in req'[q].resp.headers
               /\ req'[q].verdict = NoVerdict /\ req'[q].calls = 0
               /\ admitted'[ip] = admitted[ip]]_vars

\* C18: Every response the server returns carries X-Content-Type-Options:
\* nosniff, X-Frame-Options: DENY and Referrer-Policy: no-referrer.
C18_SecurityHeadersAlways ==
  \A q \in Requests :
    Done(q) =>
      {<<"X-Content-Type-Options", "nosniff">>, <<"X-Frame-Options", "DENY">>,
       <<"Referrer-Policy", "no-referrer">>} \subseteq req[q].resp.headers

\* C19: A POST /api/research request that is answered 429, 415, 413 or 400 is
\* answered before verifyPayment is called: no verification ran for it and
\* the step that answers it leaves the accepted and the reserved references
\* as they were; a verification starts only for a request that presents a
\* payment reference.
C19_ResearchChecksBeforeVerify ==
  [][\A q \in Requests :
       /\ (/\ req[q].pc # "done" /\ req'[q].pc = "done"
           /\ req'[q].ep = "Research"
           /\ req'[q].resp.status \in {429, 415, 413, 400})
          => /\ req[q].pc \in {"idle", "body"}
             /\ req'[q].verdict = NoVerdict
             /\ req'[q].calls = 0
             /\ replay' = replay /\ pending' = pending /\ served' = served
       /\ (req[q].pc # "verifying" /\ req'[q].pc = "verifying" /\ req'[q].ep = "Research")
          => (req[q].pc = "body" /\ req'[q].ref # NoPayment)]_vars

\* a research request that presents an unused reference is answered 400
C19_Witness ==
  \E q \in Requests :
    /\ Done(q) /\ req[q].ep = "Research" /\ Status(q) = 400
    /\ req[q].ref # NoPayment /\ ~Verified(q)
    /\ req[q].ref \notin replay \cup pending

\* C20: For every paid endpoint and every request, the price quoted by the
\* 402 challenge equals the minimum verifyPayment is asked to enforce when the
\* same request is sent again with a payment reference.
C20_AdvertisedIsEnforced ==
  call.fn = "quote" => call.advertised = call.enforced

\* ------------------------------------------------- the Twitter/X and YouTube scrapers
MaxItems == 3          \* items of one upstream response to a search
MaxTrendItems == 2     \* items of one upstream response to a trending query
MAX_LIMIT == 50

\* `limit` as the caller passes it: a finite number, in tenths, or a value
\* that is not finite
LimitInputs ==
  {[kind |-> "finite", tenths |-> t] : t \in {-10, 5, 10, 15, 20, 30, 510}}
  \cup {[kind |-> "NaN", tenths |-> 0]}

clamp(value, min, max) ==
  IF value.kind # "finite" THEN min
  ELSE LET floor == value.tenths \div 10
           low == IF floor > min THEN floor ELSE min
       IN IF low < max THEN low ELSE max

TopicInputs == {"ai agents", "  "}

sanitizeText(value) == IF value = "  " THEN "" ELSE value

\* items of an OpenSERP or SearXNG answer about Twitter/X; NullItem is an
\* element that is not an object
NullItem == [url |-> "", title |-> ""]
TwitterItems ==
  {[url |-> "https://x.com/ann/status/1", title |-> "one"],
   [url |-> " https://x.com/ann/status/1 ", title |-> "one"],
   [url |-> "https://twitter.com/bob/status/2", title |-> "two"],
   [url |-> "https://www.x.com/cy/status/3", title |-> "three"],
   [url |-> "https://x.com/dee/status/4", title |-> ""],
   [url |-> "https://example.com/x.com", title |-> "five"],
   NullItem}

TrendItems ==
  {[url |-> "https://x.com/ann/status/1", title |-> "one"],
   [url |-> " https://x.com/ann/status/1 ", title |-> "one"],
   [url |-> "https://twitter.com/bob/status/2", title |-> "two"],
   [url |-> "https://example.com/x.com", title |-> "five"]}

VideoItems ==
  {[url |-> "https://www.youtube.com/watch?v=AAAAAAAAAAA", title |-> "a"],
   [url |-> "https://youtu.be/AAAAAAAAAAA", title |-> "a"],
   [url |-> "https://www.youtube.com/watch?v=BBBBBBBBBBB", title |-> "b"],
   [url |-> "https://www.youtube.com/watch?v=CCCCCCCCCCC", title |-> ""],
   [url |-> "https://www.youtube.com/watch?v=short", title |-> "d"],
   [url |-> "https://youtu.be/DDDDDDDDDDD", title |-> "d"],
   NullItem}

\* what an upstream service answers: a JSON array, JSON of another shape,
\* a status that is not ok, or no answer at all
Responses(items, maxLen) ==
  {[kind |-> "ok", status |-> 200, items |-> s] :
     s \in UNION {[1..n -> items] : n \in 0..maxLen}}
  \cup {[kind |-> "shape", status |-> 200, items |-> <<>>],
        [kind |-> "status", status |-> 429, items |-> <<>>],
        [kind |-> "status", status |-> 500, items |-> <<>>],
        [kind |-> "throw", status |-> 0, items |-> <<>>]}

\* new URL(raw.trim()).toString() of an http(s) URL; "" stands for null
normalizeHttpUrl(value) ==
  IF value = " https://x.com/ann/status/1 " THEN "https://x.com/ann/status/1"
  ELSE value

Hostname(url) ==
  CASE url = "https://x.com/ann/status/1" -> "x.com"
    [] url = "https://twitter.com/bob/status/2" -> "twitter.com"
    [] url = "https://www.x.com/cy/status/3" -> "www.x.com"
    [] url = "https://x.com/dee/status/4" -> "x.com"
    [] url = "https://example.com/x.com" -> "example.com"
    [] url \in {"https://youtu.be/AAAAAAAAAAA", "https://youtu.be/DDDDDDDDDDD"} -> "youtu.be"
    [] OTHER -> "www.youtube.com"

isTwitterUrl(url) ==
  Hostname(url) \in {"x.com", "twitter.com", "www.x.com", "www.twitter.com"}

\* "" stands for null
extractVideoId(url) ==
  CASE url = "https://www.youtube.com/watch?v=AAAAAAAAAAA" -> "AAAAAAAAAAA"
    [] url = "https://youtu.be/AAAAAAAAAAA" -> "AAAAAAAAAAA"
    [] url = "https://www.youtube.com/watch?v=BBBBBBBBBBB" -> "BBBBBBBBBBB"
    [] url = "https://www.youtube.com/watch?v=CCCCCCCCCCC" -> "CCCCCCCCCCC"
    [] url = "https://youtu.be/DDDDDDDDDDD" -> "DDDDDDDDDDD"
    [] OTHER -> ""

NoResult == [url |-> "", text |-> ""]

\* mapOpenSERPResult and mapSearXNGResult agree on which items they keep
\* and on the url and text of the result
mapTwitterResult(raw) ==
  LET url == normalizeHttpUrl(raw.url)
  IN IF url = "" THEN NoResult
     ELSE IF ~isTwitterUrl(url) THEN NoResult
     ELSE IF raw.title = "" THEN NoResult
     ELSE [url |-> url, text |-> raw.title]

NoVideo == [videoId |-> "", url |-> "", title |-> ""]

mapResult(raw) ==
  LET url == normalizeHttpUrl(raw.url)
      videoId == IF url = "" THEN "" ELSE extractVideoId(url)
  IN IF url = "" \/ videoId = "" \/ raw.title = "" THEN NoVideo
     ELSE [videoId |-> videoId, url |-> url, title |-> raw.title]

\* the loop `for (const item of rawResults)` of the Twitter functions:
\* results so far and the items still to visit
RECURSIVE CollectTwitter(_, _, _)
CollectTwitter(results, items, safeLimit) ==
  IF items = <<>> \/ Len(results) >= safeLimit THEN results
  ELSE LET item == Head(items)
           mapped == IF item = NullItem THEN NoResult ELSE mapTwitterResult(item)
       IN CollectTwitter(IF mapped = NoResult THEN results ELSE Append(results, mapped),
                         Tail(items), safeLimit)

\* a deduplicateByUrl that keeps every result
deduplicateByUrl_KeepsAll(results) == results

RECURSIVE deduplicateByUrl(_)
deduplicateByUrl(results) ==
  IF results = <<>> THEN <<>>
  ELSE LET front == deduplicateByUrl(SubSeq(results, 1, Len(results) - 1))
           last == results[Len(results)]
       IN IF \E i \in 1..Len(front) : front[i].url = last.url THEN front
          ELSE Append(front, last)

Slice(seq, n) == SubSeq(seq, 1, IF Len(seq) < n THEN Len(seq) ELSE n)

RECURSIVE ParseLoop(_, _, _)
ParseLoop(results, items, limit) ==
  IF items = <<>> \/ Len(results) >= limit THEN results
  ELSE LET item == Head(items)
           mapped == IF item = NullItem THEN NoVideo ELSE mapResult(item)
       IN ParseLoop(IF mapped = NoVideo
                       \/ \E i \in 1..Len(results) : results[i].videoId = mapped.videoId
                    THEN results ELSE Append(results, mapped),
                    Tail(items), limit)

parseResults(payload, limit) ==
  IF payload.kind # "ok" THEN <<>> ELSE ParseLoop(<<>>, payload.items, limit)

\* searchTwitter(topic, days, limit) with the answer of OpenSERP
SearchTwitterCall ==
  /\ call = NoCall
  /\ \E topic \in TopicInputs, limit \in LimitInputs,
        upstream \in Responses(TwitterItems, MaxItems) :
       LET safeLimit == clamp(limit, 1, MAX_LIMIT)
           asked == sanitizeText(topic) # ""
           mapped == IF asked /\ upstream.kind = "ok"
                     THEN CollectTwitter(<<>>, upstream.items, safeLimit) ELSE <<>>
       IN call' = [fn |-> "searchTwitter", topic |-> topic, limit |-> limit,
                   upstream |-> upstream,
                   requests |-> IF asked THEN <<"openserp">> ELSE <<>>,
                   mapped |-> mapped,
                   result |-> Slice(deduplicateByUrl(mapped), safeLimit)]
  /\ UNCHANGED <<admitted, env, now, rateLimits, routerLimits, replay, pending, req, served>>

\* getTwitterTrending(country, limit) up to the end of attempt 1: SearXNG has
\* answered; the function goes on to attempt 2 or returns
TwitterTrendingSearx ==
  /\ call = NoCall
  /\ \E limit \in LimitInputs, searx \in Responses(TrendItems, MaxTrendItems) :
       LET safeLimit == clamp(limit, 1, MAX_LIMIT)
           results == IF searx.kind = "ok"
                      THEN CollectTwitter(<<>>, searx.items, safeLimit) ELSE <<>>
           fallback == Len(results) < safeLimit
       IN call' = [fn |-> "getTwitterTrending", limit |-> limit, searx |-> searx,
                   fromSearx |-> results, requests |-> <<"searxng">>,
                   pc |-> IF fallback THEN "attempt2" ELSE "done",
                   mapped |-> results,
                   result |-> IF fallback THEN <<>>
                              ELSE Slice(deduplicateByUrl(results), safeLimit)]
  /\ UNCHANGED <<admitted, env, now, rateLimits, routerLimits, replay, pending, req, served>>

\* attempt 2 of getTwitterTrending: OpenSERP has answered
TwitterTrendingOpenSerp ==
  /\ call.fn = "getTwitterTrending"
  /\ call.pc = "attempt2"
  /\ \E openserp \in Responses(TrendItems, MaxTrendItems) :
       LET safeLimit == clamp(call.limit, 1, MAX_LIMIT)
           results == IF openserp.kind = "ok"
                      THEN CollectTwitter(call.mapped, openserp.items, safeLimit)
                      ELSE call.mapped
       IN call' = [call EXCEPT !.requests = <<"searxng", "openserp">>,
                               !.pc = "done",
                               !.mapped = results,
                               !.result = Slice(deduplicateByUrl(results), safeLimit)]
  /\ UNCHANGED <<admitted, env, now, rateLimits, routerLimits, replay, pending, req, served>>

\* searchYouTube(topic, days, limit) with the answer of SearXNG
SearchYouTubeCall ==
  /\ call = NoCall
  /\ \E topic \in TopicInputs, limit \in LimitInputs,
        upstream \in Responses(VideoItems, MaxItems) :
       LET safeLimit == clamp(limit, 1, MAX_LIMIT)
           asked == sanitizeText(topic) # ""
       IN call' = [fn |-> "searchYouTube", topic |-> topic, limit |-> limit,
                   upstream |-> upstream,
                   requests |-> IF asked THEN <<"searxng">> ELSE <<>>,
                   result |-> IF asked THEN parseResults(upstream, safeLimit) ELSE <<>>]
  /\ UNCHANGED <<admitted, env, now, rateLimits, routerLimits, replay, pending, req, served>>

\* getYouTubeTrending(country, limit) with the answer of SearXNG
YouTubeTrendingCall ==
  /\ call = NoCall
  /\ \E limit \in LimitInputs, upstream \in Responses(VideoItems, MaxTrendItems) :
       call' = [fn |-> "getYouTubeTrending", limit |-> limit, upstream |-> upstream,
                requests |-> <<"searxng">>,
                result |-> parseResults(upstream, clamp(limit, 1, MAX_LIMIT))]
  /\ UNCHANGED <<admitted, env, now, rateLimits, routerLimits, replay, pending, req, served>>

NextScrapers ==
  \/ SearchTwitterCall
  \/ TwitterTrendingSearx
  \/ TwitterTrendingOpenSerp
  \/ SearchYouTubeCall
  \/ YouTubeTrendingCall

SpecScrapers == InitFunctions /\ [][NextScrapers]_vars

\* C21: getTwitterTrending sends its request to OpenSERP only when the
\* SearXNG attempt gave no Twitter/X result.
C21_FallbackOnlyWhenEmpty ==
  (call.fn = "getTwitterTrending" /\ call.pc = "attempt2") => call.fromSearx = <<>>

\* min(max(floor(limit), 1), 50) of a finite limit
Cap(limit) ==
  LET floor == limit.tenths \div 10
      low == IF floor >= 1 THEN floor ELSE 1
  IN IF low <= 50 THEN low ELSE 50

ScraperCalls == {"searchTwitter", "getTwitterTrending", "searchYouTube", "getYouTubeTrending"}

\* C22: searchTwitter, getTwitterTrending, searchYouTube and getYouTubeTrending
\* return at most min(max(floor(limit), 1), 50) results for any upstream
\* answer, and no two results of one returned list share a URL (Twitter) or a
\* videoId (YouTube).
C22_CappedAndDistinct ==
  call.fn \in ScraperCalls =>
    /\ call.limit.kind = "finite" => Len(call.result) <= Cap(call.limit)
    /\ Len(call.result) <= 50
    /\ \A i, j \in 1..Len(call.result) :
         i # j => IF call.fn \in {"searchTwitter", "getTwitterTrending"}
                  THEN call.result[i].url # call.result[j].url
                  ELSE call.result[i].videoId # call.result[j].videoId

\* a search whose upstream answer repeats a URL returns two distinct results
C22_Witness ==
  /\ call.fn = "searchTwitter"
  /\ call.limit.kind = "finite"
  /\ Len(call.result) = 2
  /\ Len(call.result) < Len(call.mapped)
  /\ Len(call.mapped) = Cap(call.limit)

\* the valid Twitter/X results of an upstream answer, by URL
DistinctValid(items) ==
  {mapTwitterResult(items[i]).url : i \in 1..Len(items)} \ {""}

\* C24: searchTwitter returns min(L, number of distinct valid results of the
\* upstream answer) results, L being the clamped limit: repeated URLs in the
\* answer never cost a result.
C24_DuplicatesCostNothing ==
  (call.fn = "searchTwitter" /\ call.requests # <<>> /\ call.upstream.kind = "ok"
     /\ call.limit.kind = "finite") =>
    LET distinct == Cardinality(DistinctValid(call.upstream.items))
    IN Len(call.result) = IF distinct < Cap(call.limit) THEN distinct ELSE Cap(call.limit)

\* ------------------------------------------------- the arbitrage signal
\* JavaScript numbers are IEEE 754 binary64.  A value in [0, 2) is the
\* sequence of its binary digits, digit i weighing 2^-(i-1); a binary64 has
\* at most SignificandBits digits from its leading 1 on.
FractionBits == 64
SignificandBits == 53
MaxSpreadCents == 3     \* how far apart the two prices of an input lie

BitPositions == 1..FractionBits
ZeroBits == [i \in BitPositions |-> 0]

\* 2^k modulo d, by repeated squaring
RECURSIVE Pow2Mod(_, _)
Pow2Mod(k, d) ==
  IF k = 0 THEN 1 % d
  ELSE LET half == Pow2Mod(k \div 2, d)
       IN (half * half * (IF k % 2 = 1 THEN 2 ELSE 1)) % d

\* what is left of r/d, r < d, below its first `count` binary digits
DivRem(r, d, count) == (r * Pow2Mod(count, d)) % d

\* binary digit `count` of r/d behind the point
DivBit(r, d, count) == IF 2 * DivRem(r, d, count - 1) >= d THEN 1 ELSE 0

\* round to nearest, ties to even; `below` says that the exact value has
\* nonzero digits past FractionBits
Float64Round(bits, below) ==
  IF bits = ZeroBits THEN ZeroBits
  ELSE LET lead == CHOOSE i \in BitPositions : bits[i] = 1 /\ \A j \in 1..(i - 1) : bits[j] = 0
           last == lead + SignificandBits - 1
       IN IF last >= FractionBits THEN bits
          ELSE LET sticky == below \/ \E i \in (last + 2)..FractionBits : bits[i] = 1
                   kept == [i \in BitPositions |-> IF i <= last THEN bits[i] ELSE 0]
                   up == bits[last + 1] = 1 /\ (sticky \/ bits[last] = 1)
                   zero == CHOOSE j \in 1..last :
                             kept[j] = 0 /\ \A i \in (j + 1)..last : kept[i] = 1
               IN IF ~up THEN kept
                  ELSE [i \in BitPositions |-> IF i < zero THEN kept[i]
                                         ELSE IF i = zero THEN 1 ELSE 0]

\* the binary64 nearest to n/d, 0 <= n <= d: the number JSON.parse,
\* parseFloat and the division yes_bid / 100 give
Float64Of(n, d) ==
  LET whole == IF n >= d THEN 1 ELSE 0
      r == n - whole * d
      exact == [i \in BitPositions |-> IF i = 1 THEN whole ELSE DivBit(r, d, i - 1)]
  IN Float64Round(exact, DivRem(r, d, FractionBits - 1) # 0)

Float64Less(a, b) ==
  \E i \in BitPositions : a[i] < b[i] /\ \A j \in 1..(i - 1) : a[j] = b[j]

\* the digits of a value in groups of LimbBits, as numbers
LimbBits == 16
Limbs == 1..(FractionBits \div LimbBits)

RECURSIVE Pow2(_)
Pow2(k) == IF k = 0 THEN 1 ELSE 2 * Pow2(k - 1)

RECURSIVE LimbSum(_, _, _)
LimbSum(bits, limb, count) ==
  IF count = 0 THEN 0
  ELSE 2 * LimbSum(bits, limb, count - 1) + bits[(limb - 1) * LimbBits + count]

LimbOf(bits, limb) == LimbSum(bits, limb, LimbBits)

\* a - b of two binary64 values, a >= b: the exact difference, limb by limb
\* from the lowest with the borrow, then rounded
Float64Sub(a, b) ==
  LET d4 == LimbOf(a, 4) - LimbOf(b, 4)
      d3 == LimbOf(a, 3) - LimbOf(b, 3) - (IF d4 < 0 THEN 1 ELSE 0)
      d2 == LimbOf(a, 2) - LimbOf(b, 2) - (IF d3 < 0 THEN 1 ELSE 0)
      d1 == LimbOf(a, 1) - LimbOf(b, 1) - (IF d2 < 0 THEN 1 ELSE 0)
      diff == [l \in Limbs |->
                 LET d == IF l = 1 THEN d1 ELSE IF l = 2 THEN d2
                          ELSE IF l = 3 THEN d3 ELSE d4
                 IN IF d < 0 THEN d + Pow2(LimbBits) ELSE d]
      exact == [i \in BitPositions |->
                  (diff[(i - 1) \div LimbBits + 1]
                     \div Pow2(LimbBits - 1 - ((i - 1) % LimbBits))) % 2]
  IN Float64Round(exact, FALSE)

\* Math.abs(a - b)
Float64AbsDiff(a, b) == IF Float64Less(a, b) THEN Float64Sub(b, a) ELSE Float64Sub(a, b)

\* the odds of one market as a fetch leaves them: null, or a YES price
NoOdds == [obtained |-> FALSE, cents |-> 0]
OddsInputs == {NoOdds} \cup {[obtained |-> TRUE, cents |-> c] : c \in 0..100}

NoSignal == [present |-> FALSE, detected |-> FALSE, direction |-> "None"]

detectArbitrage(polymarket, kalshi) ==
  IF ~polymarket.obtained \/ ~kalshi.obtained THEN NoSignal
  ELSE LET polyYes == Float64Of(polymarket.cents, 100)
           kalshiYes == Float64Of(kalshi.cents, 100)
           spread == Float64AbsDiff(polyYes, kalshiYes)
       IN IF Float64Less(Float64Of(2, 100), spread)
          THEN [present |-> TRUE, detected |-> TRUE,
                direction |-> IF Float64Less(kalshiYes, polyYes)
                              THEN "Polymarket YES overpriced vs Kalshi"
                              ELSE "Kalshi YES overpriced vs Polymarket"]
          ELSE [present |-> TRUE, detected |-> FALSE, direction |-> "None"]

SignalTypes == {"signal", "arbitrage", "trending", "sentiment"}

\* GET /api/predictions from the fetches to the signals of the answer: the
\* odds are fetched for three of the types, and the arbitrage signal is
\* computed when both markets gave odds
PredictionsSignals ==
  /\ call = NoCall
  /\ \E type \in SignalTypes, polymarket \in OddsInputs, kalshi \in OddsInputs :
       /\ polymarket.obtained /\ kalshi.obtained
            => /\ polymarket.cents - kalshi.cents <= MaxSpreadCents
               /\ kalshi.cents - polymarket.cents <= MaxSpreadCents
       /\ LET fetched == type \in {"signal", "arbitrage", "trending"}
              odds == [polymarket |-> IF fetched THEN polymarket ELSE NoOdds,
                       kalshi |-> IF fetched THEN kalshi ELSE NoOdds]
          IN call' = [fn |-> "predictions", type |-> type,
                      polymarket |-> polymarket, kalshi |-> kalshi, odds |-> odds,
                      arbitrage |-> IF odds.polymarket.obtained /\ odds.kalshi.obtained
                                    THEN detectArbitrage(odds.polymarket, odds.kalshi)
                                    ELSE NoSignal]
  /\ UNCHANGED <<admitted, env, now, rateLimits, routerLimits, replay, pending, req, served>>

NextSignals == PredictionsSignals

SpecSignals == InitFunctions /\ [][NextSignals]_vars

\* C23: The arbitrage signal of GET /api/predictions is computed only when
\* both odds were obtained, and its detected flag is true exactly when the
\* Polymarket YES price and the Kalshi YES price differ by more than 0.02.
C23_DetectedAboveTwoCents ==
  call.fn = "predictions" =>
    /\ call.arbitrage.present => (call.odds.polymarket.obtained /\ call.odds.kalshi.obtained)
    /\ call.arbitrage.present =>
         (call.arbitrage.detected <=>
            \/ call.odds.polymarket.cents - call.odds.kalshi.cents > 2
            \/ call.odds.kalshi.cents - call.odds.polymarket.cents > 2)

====
